---- MODULE Spec2Model ----
(***************************************************************************)
(* Model of the amqphelper Queue facade (package amqphelper).              *)
(*                                                                         *)
(* The repository holds two revisions of the same file:                    *)
(*   src/amqp.go           -- GetQueue, Publish, GetConsumer,              *)
(*                            ProcessIncomingMessages, connect (with the   *)
(*                            "already connected" check), openChannel      *)
(*   src/unnamed/part_000  -- the same plus the worker field, Recover and  *)
(*                            the IsClosed test in openChannel             *)
(* The variable `variant` fixes which revision a behaviour runs.           *)
(*                                                                         *)
(* The AMQP client library (Dial, Channel, QueueDeclare, Publish, Consume) *)
(* is the environment: each call succeeds or fails nondeterministically,   *)
(* and must fail on a handle that is closed.                               *)
(***************************************************************************)
EXTENDS Integers, Sequences, FiniteSets, TLC

\* ---------------------------------------------------------------- bounds
MaxConns      == 2   \* successful dials in one behaviour
MaxTasks      == 1   \* successful ProcessIncomingMessages calls
MaxDeliveries == 2   \* deliveries the broker sends in one behaviour
MaxDials      == 3   \* successful dials in one behaviour of SpecRecover

\* ------------------------------------------------------------ value sets
Variants   == {"amqp.go", "part_000"}
Bodies     == {1, 2}     \* message bodies handed to Publish
Callbacks  == {"f"}
NilFunc    == "nil"

\* The Configuration the caller supplies (Configuration struct), by id.
ConfigTable ==
  <<[Host |-> "h1", RoutingKey |-> "k1", Exchange |-> "x1", ContentType |-> "t1"]>>
ConfigIds == DOMAIN ConfigTable
NilConfig == 0           \* Config == nil
NilConn   == 0           \* connection == nil
NilChan   == 0           \* channel == nil
NoQueue   == [name |-> "nil", chan |-> 0]   \* internalQueue == nil

\* ---------------------------------------------------------------- errors
NoErr             == "nil"
Panic             == "panic"            \* the call did not return
ErrNotInitialized == "Queue has not been initialized"
ErrAlreadyConn    == "Error: Queue is already connected"
ErrNoConnection   == "No connection to queue"
LibErr(call)      == "amqp:" \o call    \* error value made by the library
LibCalls          == {"Dial", "Channel", "QueueDeclare", "Publish", "Consume"}
StepNames         == {"connect", "openChannel", "QueueDeclare"}

VARIABLES
  variant,    \* which revision of the file runs
  q,          \* the caller's Queue struct
  wg,         \* counter of the embedded sync.WaitGroup
  conns,      \* connections the library has dialled, by id
  chans,      \* channels the library has opened, by id
  tasks,      \* goroutines started by ProcessIncomingMessages, with feeds
  waiter,     \* a goroutine of the caller: "blocked" while inside q.Wait()
  ret,        \* if the last step was a call: what it returned and the calls it made
  panicked    \* the process died of an unrecovered panic

vars == <<variant, q, wg, conns, chans, tasks, waiter, ret, panicked>>

\* Queue{} : the zero value, before GetQueue
ZeroQueue ==
  [Connected |-> FALSE, connection |-> NilConn, channel |-> NilChan,
   internalQueue |-> NoQueue, Config |-> NilConfig, worker |-> NilFunc,
   WaitGroup |-> FALSE]

NoRet == [op |-> "none", err |-> NoErr, log |-> <<>>, queue |-> FALSE, arg |-> 0]

\* ------------------------------------------------------- library handles
IsClosed(cs, c)     == ~cs[c].open
ChanClosed(chs, ch) == ~chs[ch].open
LiveConns      == {c \in DOMAIN conns : conns[c].open}
LiveChans      == {ch \in DOMAIN chans : chans[ch].open}
LiveQueueConns == {c \in LiveConns : conns[c].owned}
LiveQueueChans == {ch \in LiveChans : chans[ch].owned}

Entry(call, arg, err) == [call |-> call, arg |-> arg, err |-> err]

\* A machine is the part of the state the setup steps read and write,
\* threaded through connect / openChannel / declare:
\*   [q, conns, chans, log, err]
Machine(qq) == [q |-> qq, conns |-> conns, chans |-> chans, log |-> <<>>, err |-> NoErr]

connect_NoFlag(m, host, dialOk) ==
  IF variant = "amqp.go" /\ m.q.Connected # FALSE
  THEN [m EXCEPT !.err = ErrAlreadyConn,
                 !.log = Append(@, Entry("connect", host, ErrAlreadyConn))]
  ELSE IF ~dialOk
  THEN [m EXCEPT !.err = LibErr("Dial"),
                 !.log = @ \o <<Entry("Dial", host, LibErr("Dial")),
                                Entry("connect", host, LibErr("Dial"))>>]
  ELSE LET c == Len(m.conns) + 1 IN
       [m EXCEPT !.conns = Append(@, [open |-> TRUE, host |-> host, owned |-> TRUE]),
                 !.q.connection = c,
                 !.err = NoErr,
                 !.log = @ \o <<Entry("Dial", host, NoErr),
                                Entry("connect", host, NoErr)>>]

connect_WrapErr(m, host, dialOk) ==
  IF variant = "amqp.go" /\ m.q.Connected # FALSE
  THEN [m EXCEPT !.err = ErrAlreadyConn,
                 !.log = Append(@, Entry("connect", host, ErrAlreadyConn))]
  ELSE IF ~dialOk
  THEN [m EXCEPT !.err = "connect: " \o LibErr("Dial"),
                 !.log = @ \o <<Entry("Dial", host, LibErr("Dial")),
                                Entry("connect", host, "connect: " \o LibErr("Dial"))>>]
  ELSE LET c == Len(m.conns) + 1 IN
       [m EXCEPT !.conns = Append(@, [open |-> TRUE, host |-> host, owned |-> TRUE]),
                 !.q.connection = c,
                 !.q.Connected = TRUE,
                 !.err = NoErr,
                 !.log = @ \o <<Entry("Dial", host, NoErr),
                                Entry("connect", host, NoErr)>>]

connect_NoCheck(m, host, dialOk) ==
  IF ~dialOk
  THEN [m EXCEPT !.err = LibErr("Dial"),
                 !.log = @ \o <<Entry("Dial", host, LibErr("Dial")),
                                Entry("connect", host, LibErr("Dial"))>>]
  ELSE LET c == Len(m.conns) + 1 IN
       [m EXCEPT !.conns = Append(@, [open |-> TRUE, host |-> host, owned |-> TRUE]),
                 !.q.connection = c,
                 !.q.Connected = TRUE,
                 !.err = NoErr,
                 !.log = @ \o <<Entry("Dial", host, NoErr),
                                Entry("connect", host, NoErr)>>]

connect_ClearFlag(m, host, dialOk) ==
  IF variant = "amqp.go" /\ m.q.Connected # FALSE
  THEN [m EXCEPT !.err = ErrAlreadyConn,
                 !.log = Append(@, Entry("connect", host, ErrAlreadyConn))]
  ELSE IF ~dialOk
  THEN [m EXCEPT !.q.Connected = FALSE,
                 !.err = LibErr("Dial"),
                 !.log = @ \o <<Entry("Dial", host, LibErr("Dial")),
                                Entry("connect", host, LibErr("Dial"))>>]
  ELSE LET c == Len(m.conns) + 1 IN
       [m EXCEPT !.conns = Append(@, [open |-> TRUE, host |-> host, owned |-> TRUE]),
                 !.q.connection = c,
                 !.q.Connected = TRUE,
                 !.err = NoErr,
                 !.log = @ \o <<Entry("Dial", host, NoErr),
                                Entry("connect", host, NoErr)>>]

\* func (q *Queue) connect(host string) error
connect(m, host, dialOk) ==
  IF variant = "amqp.go" /\ m.q.Connected # FALSE
  THEN [m EXCEPT !.err = ErrAlreadyConn,
                 !.log = Append(@, Entry("connect", host, ErrAlreadyConn))]
  ELSE IF ~dialOk
  THEN [m EXCEPT !.err = LibErr("Dial"),
                 !.log = @ \o <<Entry("Dial", host, LibErr("Dial")),
                                Entry("connect", host, LibErr("Dial"))>>]
  ELSE LET c == Len(m.conns) + 1 IN
       [m EXCEPT !.conns = Append(@, [open |-> TRUE, host |-> host, owned |-> TRUE]),
                 !.q.connection = c,
                 !.q.Connected = TRUE,
                 !.err = NoErr,
                 !.log = @ \o <<Entry("Dial", host, NoErr),
                                Entry("connect", host, NoErr)>>]

\* func (q *Queue) openChannel() error
openChannel(m, chanOk) ==
  LET c == m.q.connection IN
  IF c = NilConn \/ (variant = "part_000" /\ IsClosed(m.conns, c))
  THEN [m EXCEPT !.err = ErrNoConnection,
                 !.log = Append(@, Entry("openChannel", c, ErrNoConnection))]
  ELSE IF ~chanOk \/ IsClosed(m.conns, c)
  THEN [m EXCEPT !.err = LibErr("Channel"),
                 !.log = @ \o <<Entry("Channel", c, LibErr("Channel")),
                                Entry("openChannel", c, LibErr("Channel"))>>]
  ELSE LET ch == Len(m.chans) + 1 IN
       [m EXCEPT !.chans = Append(@, [open |-> TRUE, conn |-> c, owned |-> TRUE]),
                 !.q.channel = ch,
                 !.err = NoErr,
                 !.log = @ \o <<Entry("Channel", c, NoErr),
                                Entry("openChannel", c, NoErr)>>]

\* iq, err := q.channel.QueueDeclare(config.RoutingKey, ...)
\* The caller stores &iq only when err is nil; m.iq carries the result.
QueueDeclare(m, cfg, declOk) ==
  LET ch == m.q.channel IN
  IF ~declOk \/ ChanClosed(m.chans, ch)
  THEN [m EXCEPT !.err = LibErr("QueueDeclare"),
                 !.log = Append(@, Entry("QueueDeclare", ch, LibErr("QueueDeclare")))]
  ELSE [m EXCEPT !.err = NoErr,
                 !.log = Append(@, Entry("QueueDeclare", ch, NoErr))]

DeclaredQueue(m, cfg) == [name |-> ConfigTable[cfg].RoutingKey, chan |-> m.q.channel]

\* The library closes connection c and with it the channels opened on it.
CloseConn(m, c) ==
  [m EXCEPT !.conns = [@ EXCEPT ![c].open = FALSE],
            !.chans = [ch \in DOMAIN @ |->
                         IF @[ch].conn = c THEN [@[ch] EXCEPT !.open = FALSE] ELSE @[ch]]]

\* Connections and channels opened by a GetQueue that returns nil belong to
\* no Queue any more.
Disown(m) ==
  [m EXCEPT !.conns = [c \in DOMAIN @ |->
                         IF c > Len(conns) THEN [@[c] EXCEPT !.owned = FALSE] ELSE @[c]],
            !.chans = [ch \in DOMAIN @ |->
                         IF ch > Len(chans) THEN [@[ch] EXCEPT !.owned = FALSE] ELSE @[ch]]]

\* GetQueue after a successful connect: openChannel, QueueDeclare and the
\* two assignments.
GetQueueAfterConnect(m1, cfg, chanOk, declOk) ==
  LET m2 == openChannel(m1, chanOk)
  IN IF m2.err # NoErr THEN Disown(m2)
     ELSE LET m3 == QueueDeclare(m2, cfg, declOk)
          IN IF m3.err # NoErr THEN Disown(m3)
             ELSE [m3 EXCEPT !.q.internalQueue = DeclaredQueue(m3, cfg),
                             !.q.Config = cfg]

GetQueue_IgnoreDialErr(cfg, dialOk, chanOk, declOk) ==
  LET m0 == Machine([ZeroQueue EXCEPT !.WaitGroup = TRUE])
      m1 == connect(m0, ConfigTable[cfg].Host, dialOk)
  IN GetQueueAfterConnect(m1, cfg, chanOk, declOk)

\* func GetQueue(config *Configuration) (*Queue, error)
\* Result: machine; a Queue is returned iff err = NoErr.
GetQueue(cfg, dialOk, chanOk, declOk) ==
  LET m0 == Machine([ZeroQueue EXCEPT !.WaitGroup = TRUE])
      m1 == connect(m0, ConfigTable[cfg].Host, dialOk)
  IN IF m1.err # NoErr THEN Disown(m1)
     ELSE GetQueueAfterConnect(m1, cfg, chanOk, declOk)

Publish_ReturnsNil(qq, message, mandatory, immediate, pubOk) ==
  IF qq.channel = NilChan
  THEN [err |-> NoErr, log |-> <<>>]
  ELSE LET publishing == [exchange    |-> ConfigTable[qq.Config].Exchange,
                          key         |-> ConfigTable[qq.Config].RoutingKey,
                          ContentType |-> ConfigTable[qq.Config].ContentType,
                          channel     |-> qq.channel]
           e == IF pubOk /\ ~ChanClosed(chans, qq.channel) THEN NoErr ELSE LibErr("Publish")
       IN [err |-> e, log |-> <<Entry("Publish", publishing, e)>>]

\* func (q *Queue) Publish(message []byte, mandatory, immediate bool) error
\* Result: [err, log]; Publish changes no field of the Queue.  message,
\* mandatory and immediate are handed to the library as they come and decide
\* nothing here; the log keeps the fields taken from the Queue.
Publish(qq, message, mandatory, immediate, pubOk) ==
  IF qq.channel = NilChan
  THEN [err |-> ErrNotInitialized, log |-> <<>>]
  ELSE LET publishing == [exchange    |-> ConfigTable[qq.Config].Exchange,
                          key         |-> ConfigTable[qq.Config].RoutingKey,
                          ContentType |-> ConfigTable[qq.Config].ContentType,
                          channel     |-> qq.channel]
           e == IF pubOk /\ ~ChanClosed(chans, qq.channel) THEN NoErr ELSE LibErr("Publish")
       IN [err |-> e, log |-> <<Entry("Publish", publishing, e)>>]

\* func (q *Queue) GetConsumer(ConsumerID string) (<-chan amqp.Delivery, error)
\* Result: [err, log]; on success the library has registered a consumer on
\* q.channel and returns its feed.
GetConsumer(qq, consOk) ==
  LET e == IF consOk /\ ~ChanClosed(chans, qq.channel) THEN NoErr ELSE LibErr("Consume")
  IN [err |-> e, log |-> <<Entry("Consume", qq.channel, e)>>]

\* The goroutine of ProcessIncomingMessages and the feed it ranges over.
\*   feed   : deliveries sent by the broker and not yet received
\*   sent   : every delivery the feed has yielded so far (history)
\*   called : the deliveries the callback was invoked with (history)
\*   pc     : "range" while in the loop, "done" after it
NewTask(qq, f) ==
  [chan |-> qq.channel, f |-> f, feed |-> <<>>, sent |-> <<>>, called |-> <<>>,
   pc |-> "range"]

ProcessIncomingMessages_AddFirst(qq, f, consOk) ==
  LET c == GetConsumer(qq, consOk) IN
  IF c.err # NoErr
  THEN [q |-> qq, wg |-> wg + 1, tasks |-> tasks, err |-> c.err, log |-> c.log]
  ELSE [q     |-> IF variant = "part_000" THEN [qq EXCEPT !.worker = f] ELSE qq,
        wg    |-> wg + 1,
        tasks |-> Append(tasks, NewTask(qq, f)),
        err   |-> NoErr,
        log   |-> c.log]

ProcessIncomingMessages_GoFirst(qq, f, consOk) ==
  LET c == GetConsumer(qq, consOk) IN
  IF c.err # NoErr
  THEN [q |-> qq, wg |-> wg, tasks |-> Append(tasks, NewTask(qq, f)),
        err |-> c.err, log |-> c.log]
  ELSE [q     |-> IF variant = "part_000" THEN [qq EXCEPT !.worker = f] ELSE qq,
        wg    |-> wg + 1,
        tasks |-> Append(tasks, NewTask(qq, f)),
        err   |-> NoErr,
        log   |-> c.log]

ProcessIncomingMessages_WorkerFirst(qq, f, consOk) ==
  LET c == GetConsumer(qq, consOk)
      qw == IF variant = "part_000" THEN [qq EXCEPT !.worker = f] ELSE qq IN
  IF c.err # NoErr
  THEN [q |-> qw, wg |-> wg, tasks |-> tasks, err |-> c.err, log |-> c.log]
  ELSE [q     |-> qw,
        wg    |-> wg + 1,
        tasks |-> Append(tasks, NewTask(qq, f)),
        err   |-> NoErr,
        log   |-> c.log]

\* func (q *Queue) ProcessIncomingMessages(ConsumerID string, f func(m *Message)) error
\* Result: [q, wg, tasks, err, log]
ProcessIncomingMessages(qq, f, consOk) ==
  LET c == GetConsumer(qq, consOk) IN
  IF c.err # NoErr
  THEN [q |-> qq, wg |-> wg, tasks |-> tasks, err |-> c.err, log |-> c.log]
  ELSE [q     |-> IF variant = "part_000" THEN [qq EXCEPT !.worker = f] ELSE qq,
        wg    |-> wg + 1,
        tasks |-> Append(tasks, NewTask(qq, f)),
        err   |-> NoErr,
        log   |-> c.log]

Range_Last(t) ==
  [t EXCEPT !.called = Append(@, t.feed[Len(t.feed)]),
            !.feed = SubSeq(t.feed, 1, Len(t.feed) - 1)]

\* for msg := range msgs { f(&Message{&msg}) } : one iteration, which
\* receives the next delivery of the feed and calls f with it
Range(t) ==
  [t EXCEPT !.called = Append(@, Head(t.feed)), !.feed = Tail(t.feed)]

Exit_Done(t) ==
  [t |-> [t EXCEPT !.pc = "done"], wg |-> wg - 1]

\* the range loop ends on a closed, drained feed and the goroutine returns;
\* Result: [t, wg]
Exit(t) ==
  [t |-> [t EXCEPT !.pc = "done"], wg |-> wg]

\* What Recover hands back: the machine, the counter and whether it panicked.
RecoverResult(m, w, p) ==
  [q |-> m.q, conns |-> m.conns, chans |-> m.chans, log |-> m.log,
   err |-> IF p THEN Panic ELSE m.err, wg |-> w, panic |-> p]

RecoverAfterConnect_NoStore(m1, chanOk, declOk) ==
  LET m2 == openChannel(m1, chanOk)
  IN IF m2.err # NoErr THEN RecoverResult(m2, wg, FALSE)
     ELSE LET m3 == QueueDeclare(m2, m2.q.Config, declOk)
          IN IF m3.err # NoErr THEN RecoverResult(m3, wg, FALSE)
             ELSE IF m3.q.worker # NilFunc
                  THEN RecoverResult(m3, wg - 1, wg - 1 < 0)
                  ELSE RecoverResult(m3, wg, FALSE)

RecoverAfterConnect_StoreFirst(m1, chanOk, declOk) ==
  LET m2 == openChannel(m1, chanOk)
  IN IF m2.err # NoErr THEN RecoverResult(m2, wg, FALSE)
     ELSE LET m3 == QueueDeclare(m2, m2.q.Config, declOk)
              m4 == [m3 EXCEPT !.q.internalQueue = DeclaredQueue(m3, m3.q.Config)]
          IN IF m4.err # NoErr THEN RecoverResult(m4, wg, FALSE)
             ELSE IF m4.q.worker # NilFunc
                  THEN RecoverResult(m4, wg - 1, wg - 1 < 0)
                  ELSE RecoverResult(m4, wg, FALSE)

RecoverAfterConnect_Consume(m1, chanOk, declOk) ==
  LET m2 == openChannel(m1, chanOk)
  IN IF m2.err # NoErr THEN RecoverResult(m2, wg, FALSE)
     ELSE LET m3 == QueueDeclare(m2, m2.q.Config, declOk)
          IN IF m3.err # NoErr THEN RecoverResult(m3, wg, FALSE)
             ELSE LET m4 == [m3 EXCEPT !.q.internalQueue = DeclaredQueue(m3, m3.q.Config),
                                       !.log = Append(@, Entry("Consume", m3.q.channel, NoErr))]
                  IN IF m4.q.worker # NilFunc
                     THEN RecoverResult(m4, wg - 1, wg - 1 < 0)
                     ELSE RecoverResult(m4, wg, FALSE)

\* Recover after the reconnect step: openChannel, QueueDeclare, the
\* assignment of internalQueue and the Done.  A Done that takes the counter
\* below zero panics ("sync: negative WaitGroup counter").
RecoverAfterConnect(m1, chanOk, declOk) ==
  LET m2 == openChannel(m1, chanOk)
  IN IF m2.err # NoErr THEN RecoverResult(m2, wg, FALSE)
     ELSE LET m3 == QueueDeclare(m2, m2.q.Config, declOk)
          IN IF m3.err # NoErr THEN RecoverResult(m3, wg, FALSE)
             ELSE LET m4 == [m3 EXCEPT !.q.internalQueue = DeclaredQueue(m3, m3.q.Config)]
                  IN IF m4.q.worker # NilFunc
                     THEN RecoverResult(m4, wg - 1, wg - 1 < 0)
                     ELSE RecoverResult(m4, wg, FALSE)

Recover_IgnoreDialErr(qq, dialOk, chanOk, declOk) ==
  LET m0 == Machine(qq)
      m1 == IF ~IsClosed(conns, qq.connection)
            THEN connect(m0, ConfigTable[qq.Config].Host, dialOk)
            ELSE m0
  IN RecoverAfterConnect(m1, chanOk, declOk)

\* func (q *Queue) Recover() error                      (part_000 only)
Recover(qq, dialOk, chanOk, declOk) ==
  LET m0 == Machine(qq)
      m1 == IF ~IsClosed(conns, qq.connection)
            THEN connect(m0, ConfigTable[qq.Config].Host, dialOk)
            ELSE m0
  IN IF m1.err # NoErr THEN RecoverResult(m1, wg, FALSE)
     ELSE RecoverAfterConnect(m1, chanOk, declOk)

Init ==
  /\ variant \in Variants
  /\ q = ZeroQueue
  /\ wg = 0
  /\ conns = <<>>
  /\ chans = <<>>
  /\ tasks = <<>>
  /\ waiter = "idle"
  /\ ret = NoRet
  /\ panicked = FALSE

Constructed == q.Config # NilConfig

Return(op, err, log, queue, arg) ==
  [op |-> op, err |-> err, log |-> log, queue |-> queue, arg |-> arg]

\* q, err := GetQueue(config), with at most cap connections dialled so far
GetQueueCall(cap) ==
  /\ ~panicked
  /\ ~Constructed
  /\ \E cfg \in ConfigIds, dialOk, chanOk, declOk \in BOOLEAN :
       /\ dialOk => Len(conns) < cap
       /\ LET r == GetQueue(cfg, dialOk, chanOk, declOk) IN
            /\ q' = IF r.err = NoErr THEN r.q ELSE q
            /\ conns' = r.conns
            /\ chans' = r.chans
            /\ ret' = Return("GetQueue", r.err, r.log, r.err = NoErr, cfg)
  /\ UNCHANGED <<variant, wg, tasks, waiter, panicked>>

DoGetQueue == GetQueueCall(MaxConns)

\* err := q.Publish(body, mandatory, immediate)
DoPublish ==
  /\ ~panicked
  /\ \E body \in Bodies, mandatory, immediate, pubOk \in BOOLEAN :
       LET r == Publish(q, body, mandatory, immediate, pubOk) IN
         ret' = Return("Publish", r.err, r.log, FALSE, 0)
  /\ UNCHANGED <<variant, q, wg, conns, chans, tasks, waiter, panicked>>

\* A call that dereferences a nil field of the zero Queue panics.
NilDeref(op) ==
  /\ ret' = Return(op, Panic, <<>>, FALSE, 0)
  /\ panicked' = TRUE
  /\ UNCHANGED <<variant, q, wg, conns, chans, tasks, waiter>>

\* msgs, err := q.GetConsumer(id)
DoGetConsumer ==
  /\ ~panicked
  /\ IF ~Constructed THEN NilDeref("GetConsumer")
     ELSE /\ \E consOk \in BOOLEAN :
               LET r == GetConsumer(q, consOk) IN
                 ret' = Return("GetConsumer", r.err, r.log, FALSE, 0)
          /\ UNCHANGED <<variant, q, wg, conns, chans, tasks, waiter, panicked>>

\* err := q.ProcessIncomingMessages(id, f)
DoProcessIncomingMessages ==
  /\ ~panicked
  /\ IF ~Constructed THEN NilDeref("ProcessIncomingMessages")
     ELSE /\ \E f \in Callbacks, consOk \in BOOLEAN :
               /\ consOk => Len(tasks) < MaxTasks
               /\ LET r == ProcessIncomingMessages(q, f, consOk) IN
                    /\ q' = r.q
                    /\ wg' = r.wg
                    /\ tasks' = r.tasks
                    /\ ret' = Return("ProcessIncomingMessages", r.err, r.log, FALSE, 0)
          /\ UNCHANGED <<variant, conns, chans, waiter, panicked>>

\* err := q.Recover(), with at most cap connections dialled so far
RecoverCall(cap) ==
  /\ ~panicked
  /\ variant = "part_000"
  /\ IF ~Constructed THEN NilDeref("Recover")
     ELSE /\ \E dialOk, chanOk, declOk \in BOOLEAN :
               /\ dialOk => Len(conns) < cap
               /\ LET r == Recover(q, dialOk, chanOk, declOk) IN
                    /\ q' = r.q
                    /\ conns' = r.conns
                    /\ chans' = r.chans
                    /\ wg' = r.wg
                    /\ panicked' = r.panic
                    /\ waiter' = IF waiter = "blocked" /\ r.wg = 0 THEN "idle" ELSE waiter
                    /\ ret' = Return("Recover", r.err, r.log, FALSE, 0)
          /\ UNCHANGED <<variant, tasks>>

DoRecover == RecoverCall(MaxConns)

\* q.Wait() in a goroutine of the caller: returns at once when the counter
\* is zero, otherwise blocks until a Done brings the counter to zero.
DoWait ==
  /\ ~panicked
  /\ waiter = "idle"
  /\ IF ~q.WaitGroup
     THEN /\ panicked' = TRUE
          /\ UNCHANGED waiter
     ELSE /\ waiter' = IF wg = 0 THEN "idle" ELSE "blocked"
          /\ UNCHANGED panicked
  /\ ret' = NoRet
  /\ UNCHANGED <<variant, q, wg, conns, chans, tasks>>

RECURSIVE TotalSent(_)
TotalSent(n) == IF n = 0 THEN 0 ELSE Len(tasks[n].sent) + TotalSent(n - 1)

FeedClosed(t) == ChanClosed(chans, t.chan)

\* the broker sends its next delivery on the feed of a registered consumer;
\* a delivery is named by its position in the broker's order
Deliver(i) ==
  /\ ~panicked
  /\ ~FeedClosed(tasks[i])
  /\ TotalSent(Len(tasks)) < MaxDeliveries
  /\ LET d == Len(tasks[i].sent) + 1 IN
       tasks' = [tasks EXCEPT ![i].feed = Append(@, d), ![i].sent = Append(@, d)]
  /\ ret' = NoRet
  /\ UNCHANGED <<variant, q, wg, conns, chans, waiter, panicked>>

TaskRange(i) ==
  /\ ~panicked
  /\ tasks[i].pc = "range"
  /\ tasks[i].feed # <<>>
  /\ tasks' = [tasks EXCEPT ![i] = Range(@)]
  /\ ret' = NoRet
  /\ UNCHANGED <<variant, q, wg, conns, chans, waiter, panicked>>

TaskExit(i) ==
  /\ ~panicked
  /\ tasks[i].pc = "range"
  /\ tasks[i].feed = <<>>
  /\ FeedClosed(tasks[i])
  /\ LET r == Exit(tasks[i]) IN
       /\ tasks' = [tasks EXCEPT ![i] = r.t]
       /\ wg' = r.wg
  /\ ret' = NoRet
  /\ UNCHANGED <<variant, q, conns, chans, waiter, panicked>>

\* a connection opened for the Queue is lost: the library closes it, its
\* channels and their feeds
ConnFault(c) ==
  /\ ~panicked
  /\ conns[c].open
  /\ conns[c].owned
  /\ LET m == CloseConn(Machine(q), c) IN
       /\ conns' = m.conns
       /\ chans' = m.chans
  /\ ret' = NoRet
  /\ UNCHANGED <<variant, q, wg, tasks, waiter, panicked>>

Next ==
  \/ DoGetQueue
  \/ DoPublish
  \/ DoGetConsumer
  \/ DoProcessIncomingMessages
  \/ DoRecover
  \/ DoWait
  \/ \E i \in DOMAIN tasks : Deliver(i)
  \/ \E i \in DOMAIN tasks : TaskRange(i)
  \/ \E i \in DOMAIN tasks : TaskExit(i)
  \/ \E c \in DOMAIN conns : ConnFault(c)

Spec == Init /\ [][Next]_vars

\* connect is not exported; code of the package can call it on a Queue it
\* holds:  err := q.connect(q.Config.Host)
DoConnect ==
  /\ ~panicked
  /\ Constructed
  /\ \E dialOk \in BOOLEAN :
       /\ dialOk => Len(conns) < MaxConns
       /\ LET m == connect(Machine(q), ConfigTable[q.Config].Host, dialOk) IN
            /\ q' = m.q
            /\ conns' = m.conns
            /\ chans' = m.chans
            /\ ret' = Return("connect", m.err, m.log, FALSE, 0)
  /\ UNCHANGED <<variant, wg, tasks, waiter, panicked>>

\* The revision of src/amqp.go, with calls of connect on a constructed Queue.
InitConnect == Init /\ variant = "amqp.go"

NextConnect ==
  \/ DoGetQueue
  \/ DoPublish
  \/ DoGetConsumer
  \/ DoProcessIncomingMessages
  \/ DoWait
  \/ DoConnect
  \/ \E i \in DOMAIN tasks : Deliver(i)
  \/ \E i \in DOMAIN tasks : TaskRange(i)
  \/ \E i \in DOMAIN tasks : TaskExit(i)
  \/ \E c \in DOMAIN conns : ConnFault(c)

SpecConnect == InitConnect /\ [][NextConnect]_vars

\* The revision with Recover, followed through more reconnects: the calls
\* that move the counter, and the faults, without the deliveries.
InitRecover == Init /\ variant = "part_000"

DoGetQueueR == GetQueueCall(MaxDials)
DoRecoverR  == RecoverCall(MaxDials)

NextRecover ==
  \/ DoGetQueueR
  \/ DoProcessIncomingMessages
  \/ DoRecoverR
  \/ DoWait
  \/ \E i \in DOMAIN tasks : TaskExit(i)
  \/ \E c \in DOMAIN conns : ConnFault(c)

SpecRecover == InitRecover /\ [][NextRecover]_vars

\* The Go scheduler runs every goroutine that can run: a task that can take
\* a delivery or leave its loop eventually does.  The callback is taken to
\* return.
TaskStep(i) == i \in DOMAIN tasks /\ (TaskRange(i) \/ TaskExit(i))

\* Publish and GetConsumer change nothing but the record of the last call,
\* so the behaviours of the tasks are those of the other actions.
NextTasks ==
  \/ DoGetQueue
  \/ DoProcessIncomingMessages
  \/ DoRecover
  \/ DoWait
  \/ \E i \in DOMAIN tasks : Deliver(i)
  \/ \E i \in DOMAIN tasks : TaskRange(i)
  \/ \E i \in DOMAIN tasks : TaskExit(i)
  \/ \E c \in DOMAIN conns : ConnFault(c)

FairSpec ==
  Init /\ [][NextTasks]_vars /\ \A i \in 1..MaxTasks : WF_vars(TaskStep(i))

\* ------------------------------------------------------------ properties
\* Reading the record of the last call.
HasCall(log, call) == \E i \in DOMAIN log : log[i].call = call
IsStep(e)          == e.call \in StepNames
IsLibCall(e)       == e.call \in LibCalls
Steps(log)         == SelectSeq(log, IsStep)
Failed(e)          == e.err # NoErr
FailedSteps(log)   == SelectSeq(Steps(log), Failed)
FailedLib(log)     == SelectSeq(SelectSeq(log, IsLibCall), Failed)
StepRank(call)     == CASE call = "connect" -> 1
                        [] call = "openChannel" -> 2
                        [] call = "QueueDeclare" -> 3
\* the steps ran in the order connect, openChannel, QueueDeclare and only
\* the last of them may have failed
StepsInOrder(log) ==
  LET st == Steps(log) IN
    /\ \A i, j \in DOMAIN st : i < j => StepRank(st[i].call) < StepRank(st[j].call)
    /\ \A i \in DOMAIN st : Failed(st[i]) => i = Len(st)
\* the error handed back is the error of the failing step, and the error
\* of the library call that failed in it
FirstError(log, err) ==
  /\ FailedSteps(log) # <<>>
  /\ err = FailedSteps(log)[1].err
  /\ FailedLib(log) # <<>> => err = FailedLib(log)[1].err
IsPrefix(a, b) == Len(a) <= Len(b) /\ SubSeq(b, 1, Len(a)) = a

\* C1: Publish on a Queue whose channel was never opened returns the
\* "Queue has not been initialized" error and makes no library call,
\* whatever body, mandatory and immediate are.
C1_PublishNotInitialized ==
  (ret.op = "Publish" /\ q.channel = NilChan)
    => (ret.err = ErrNotInitialized /\ Len(ret.log) = 0)

C1_Witness ==
  ret.op = "Publish" /\ q.channel = NilChan /\ ret.err = ErrNotInitialized

\* C2: when the dial of GetQueue fails, GetQueue returns an error and no
\* Queue, the caller holds no Queue with Connected = true, and neither the
\* channel open nor the queue declare was attempted.
C2_DialFailureStopsGetQueue ==
  (ret.op = "GetQueue" /\ \E i \in DOMAIN ret.log :
                             ret.log[i].call = "Dial" /\ Failed(ret.log[i]))
    => /\ ret.err # NoErr
       /\ ~ret.queue
       /\ ~q.Connected
       /\ ~HasCall(ret.log, "openChannel")
       /\ ~HasCall(ret.log, "Channel")
       /\ ~HasCall(ret.log, "QueueDeclare")

C2_Witness ==
  ret.op = "GetQueue" /\ ret.err = LibErr("Dial") /\ HasCall(ret.log, "Dial")

\* C3: a Queue returned by a successful GetQueue has Connected = true, a
\* connection, a channel opened on that connection, a declared-queue handle
\* and Config equal to the configuration that was passed in.
C3_GetQueueResult ==
  (ret.op = "GetQueue" /\ ret.err = NoErr)
    => /\ ret.queue
       /\ q.Connected
       /\ q.connection # NilConn
       /\ q.channel # NilChan
       /\ chans[q.channel].conn = q.connection
       /\ q.internalQueue # NoQueue
       /\ q.internalQueue.chan = q.channel
       /\ q.Config = ret.arg

C3_Witness ==
  ret.op = "GetQueue" /\ ret.err = NoErr /\ ret.queue /\ q.Config \in ConfigIds

\* C4: a Recover call made while the Queue's connection is closed dials the
\* configured host during that call.
C4_RecoverRedialsWhenClosed ==
  [][(DoRecover /\ Constructed /\ IsClosed(conns, q.connection))
       => HasCall(ret'.log, "Dial")]_vars

\* C5: the callback of a task is invoked once for each delivery its feed
\* yields, in the feed's order, none skipped and none twice: what the
\* callback has seen is a prefix of what the feed has yielded, the rest is
\* the deliveries still pending, and a task that has ended has seen them all.
C5_CallbackInFeedOrder ==
  \A i \in DOMAIN tasks :
    LET t == tasks[i] IN
      /\ IsPrefix(t.called, t.sent)
      /\ t.called \o t.feed = t.sent
      /\ t.pc = "done" => t.called = t.sent

C5_Witness ==
  \E i \in DOMAIN tasks :
    tasks[i].pc = "done" /\ tasks[i].called = <<1, 2>>

\* C6: at most one connection and at most one channel opened for the Queue
\* are live at any time.
C6_OneLiveConnectionAndChannel ==
  /\ Cardinality(LiveQueueConns) <= 1
  /\ Cardinality(LiveQueueChans) <= 1

\* C7 (as claimed): a caller of Wait is blocked only until the consumer
\* goroutine is registered: no caller is blocked while a task exists.
C7_WaitProceedsOnceRegistered ==
  waiter = "blocked" => Len(tasks) = 0

\* C7 (amended): a caller blocked in Wait after a successful
\* ProcessIncomingMessages stays blocked while the consumer task runs and
\* after it ends; only a Recover that returns nil and brings the counter to
\* zero lets it proceed.
C7_WaitReleasedOnlyByRecover ==
  [][waiter = "blocked"
       => \/ waiter' = "blocked" /\ wg' > 0
          \/ /\ waiter' = "idle"
             /\ wg' = 0
             /\ tasks' = tasks
             /\ ret'.op = "Recover"
             /\ ret'.err = NoErr]_vars

C7_Witness ==
  waiter = "blocked" /\ \E i \in DOMAIN tasks : tasks[i].pc = "done"

\* C8: a successful ProcessIncomingMessages adds exactly one to the counter
\* in the step that starts its task, a failed one adds nothing, and the
\* counter goes down only in a Recover call: the feed closing and the task
\* ending leave it alone.
C8_CounterChanges ==
  [][/\ Len(tasks') # Len(tasks)
          => /\ Len(tasks') = Len(tasks) + 1
             /\ wg' = wg + 1
             /\ ret'.op = "ProcessIncomingMessages"
             /\ ret'.err = NoErr
     /\ wg' # wg
          => \/ wg' = wg + 1 /\ Len(tasks') = Len(tasks) + 1
             \/ wg' = wg - 1 /\ tasks' = tasks /\ ret'.op = "Recover"]_vars

C8_Witness ==
  /\ wg = 1
  /\ Len(tasks) = 1
  /\ tasks[1].pc = "done"
  /\ ret.op = "ProcessIncomingMessages"
  /\ ret.err = LibErr("Consume")

\* C9: Recover returns the error of the first step that fails among
\* connect, openChannel and QueueDeclare, run in that order, runs no step
\* after a failed one, and returns nil only if every step it ran succeeded.
C9_RecoverFirstError ==
  (ret.op = "Recover" /\ ret.err # Panic)
    => /\ StepsInOrder(ret.log)
       /\ ret.err # NoErr => FirstError(ret.log, ret.err)
       /\ ret.err = NoErr => FailedSteps(ret.log) = <<>>

C9_Witness ==
  /\ ret.op = "Recover"
  /\ ret.err = LibErr("Channel")
  /\ Len(Steps(ret.log)) = 2

\* C10: GetQueue fails exactly when connect, openChannel or QueueDeclare
\* fails; the error it returns is that step's error as the library made it,
\* and no step runs after the failed one.
C10_GetQueueFirstError ==
  ret.op = "GetQueue"
    => /\ StepsInOrder(ret.log)
       /\ (ret.err # NoErr) = (FailedSteps(ret.log) # <<>>)
       /\ ret.err # NoErr => FirstError(ret.log, ret.err)
       /\ ret.queue = (ret.err = NoErr)
       /\ ret.err = NoErr => Len(Steps(ret.log)) = 3

C10_Witness ==
  /\ ret.op = "GetQueue"
  /\ ret.err = LibErr("QueueDeclare")
  /\ Len(Steps(ret.log)) = 3

\* C11: every error a public call returns is either the error of the
\* library call that failed in it, unchanged, or one of the two local
\* errors "Queue has not been initialized" and "Error: Queue is already
\* connected".
C11_OnlyTwoLocalErrors ==
  (ret.op # "none" /\ ret.err # NoErr /\ ret.err # Panic)
    => \/ FailedLib(ret.log) # <<>> /\ ret.err = FailedLib(ret.log)[1].err
       \/ ret.err \in {ErrNotInitialized, ErrAlreadyConn}

\* C12: GetQueue is all-or-nothing: after a GetQueue that returned an
\* error, no connection and no channel opened by it is live.
C12_GetQueueAtomic ==
  (ret.op = "GetQueue" /\ ret.err # NoErr)
    => /\ \A c \in DOMAIN conns : ~conns[c].owned => ~conns[c].open
       /\ \A ch \in DOMAIN chans : ~chans[ch].owned => ~chans[ch].open

\* C13: a successful ProcessIncomingMessages starts exactly one task and a
\* failed one starts none, nothing else starts a task, a task has not ended
\* while its feed is open, and once its feed is closed a task ends (unless
\* the process has died of a panic before).
C13_OneTaskPerCall ==
  /\ [][/\ ret'.op = "ProcessIncomingMessages"
             => IF ret'.err = NoErr
                THEN /\ Len(tasks') = Len(tasks) + 1
                     /\ SubSeq(tasks', 1, Len(tasks)) = tasks
                     /\ tasks'[Len(tasks')].pc = "range"
                ELSE tasks' = tasks
        /\ Len(tasks') # Len(tasks) => ret'.op = "ProcessIncomingMessages"]_vars
  /\ [](\A i \in DOMAIN tasks : tasks[i].pc = "done" => FeedClosed(tasks[i]))
  /\ \A i \in 1..MaxTasks :
       (i \in DOMAIN tasks /\ FeedClosed(tasks[i]))
         ~> (panicked \/ (i \in DOMAIN tasks /\ tasks[i].pc = "done"))

C13_Witness ==
  \E i \in DOMAIN tasks :
    tasks[i].pc = "done" /\ FeedClosed(tasks[i]) /\ Len(tasks[i].called) = 1

\* C14: in the revision with Recover, Connected is true exactly when a dial
\* made for this Queue has succeeded; Connected = true implies a non-nil
\* connection; and once true it stays true, through connection faults,
\* failed dials and failed Recover calls.
C14_ConnectedIffDialled ==
  /\ [](variant = "part_000"
          => /\ q.Connected = (\E c \in DOMAIN conns : conns[c].owned)
             /\ q.Connected => q.connection # NilConn)
  /\ [][(variant = "part_000" /\ q.Connected) => q'.Connected]_vars

C14_Witness ==
  /\ variant = "part_000"
  /\ ret.op = "Recover"
  /\ ret.err = LibErr("Dial")
  /\ q.Connected
  /\ \E c \in DOMAIN conns : conns[c].owned /\ ~conns[c].open

\* C15: when Recover returns nil, the Queue's connection was open when the
\* channel was opened, the Queue's channel is one opened in this call on
\* the Queue's current connection, and the declared-queue handle is the
\* result of the declare made on that channel.
C15_RecoverResult ==
  [][(ret'.op = "Recover" /\ ret'.err = NoErr)
       => /\ q'.connection # NilConn
          /\ conns'[q'.connection].open
          /\ Len(chans') = Len(chans) + 1
          /\ q'.channel = Len(chans')
          /\ chans'[q'.channel].conn = q'.connection
          /\ chans'[q'.channel].open
          /\ q'.internalQueue = [name |-> ConfigTable[q.Config].RoutingKey,
                                 chan |-> q'.channel]]_vars

C15_Witness ==
  /\ ret.op = "Recover"
  /\ ret.err = NoErr
  /\ q.channel = 2
  /\ q.internalQueue.chan = 2

\* C16: in the revision of src/amqp.go, connect on a Queue with
\* Connected = true returns "Error: Queue is already connected" without
\* dialling and leaves connection, channel and Connected as they were; and
\* no public call ever returns that error.
C16_AlreadyConnected ==
  /\ [][(ret'.op = "connect" /\ q.Connected)
          => /\ ret'.err = ErrAlreadyConn
             /\ ~HasCall(ret'.log, "Dial")
             /\ q' = q
             /\ conns' = conns
             /\ chans' = chans]_vars
  /\ [](ret.op # "connect" => ret.err # ErrAlreadyConn)

C16_Witness ==
  /\ variant = "amqp.go"
  /\ ret.op = "connect"
  /\ ret.err = ErrAlreadyConn
  /\ q.Connected
  /\ IsClosed(conns, q.connection)

\* C17: the outstanding-work counter is never negative: Recover releases no
\* more units than successful ProcessIncomingMessages calls have added.
C17_CounterNeverNegative ==
  wg >= 0

\* C18: a ProcessIncomingMessages call that fails because the consumer
\* registration fails returns the error of Consume and changes nothing:
\* counter, stored worker, connection and channel are as before and no
\* task is started.
C18_FailedRegistrationChangesNothing ==
  [][(ret'.op = "ProcessIncomingMessages" /\ ret'.err \notin {NoErr, Panic})
       => /\ ret'.err = LibErr("Consume")
          /\ FailedLib(ret'.log) # <<>>
          /\ ret'.err = FailedLib(ret'.log)[1].err
          /\ wg' = wg
          /\ q'.worker = q.worker
          /\ q'.connection = q.connection
          /\ q'.channel = q.channel
          /\ conns' = conns
          /\ chans' = chans
          /\ tasks' = tasks]_vars

C18_Witness ==
  /\ variant = "part_000"
  /\ ret.op = "ProcessIncomingMessages"
  /\ ret.err = LibErr("Consume")
  /\ q.worker = NilFunc
  /\ q.channel # NilChan
  /\ wg = 0
  /\ tasks = <<>>

\* C19: Recover registers no consumer and starts no task; after a
\* successful Recover no task reads the newly opened channel, and every
\* task keeps the feed it was started on, which only grows by deliveries of
\* that feed.
C19_RecoverStartsNoConsumer ==
  /\ [][ret'.op = "Recover"
          => /\ ~HasCall(ret'.log, "Consume")
             /\ tasks' = tasks
             /\ ret'.err = NoErr
                  => \A i \in DOMAIN tasks' : tasks'[i].chan # q'.channel]_vars
  /\ [][\A i \in DOMAIN tasks :
          /\ tasks'[i].chan = tasks[i].chan
          /\ tasks'[i].f = tasks[i].f
          /\ IsPrefix(tasks[i].sent, tasks'[i].sent)
          /\ IsPrefix(tasks[i].called, tasks'[i].called)
          /\ tasks'[i].sent # tasks[i].sent => ~ChanClosed(chans, tasks[i].chan)]_vars

C19_Witness ==
  /\ ret.op = "Recover"
  /\ ret.err = NoErr
  /\ Len(tasks) = 1
  /\ tasks[1].pc = "range"
  /\ tasks[1].chan = 1
  /\ ~FeedClosed(tasks[1])
  /\ tasks[1].called # <<>>
  /\ q.channel = 2

\* C20: a Recover call that returns an error releases no unit of the
\* counter and leaves internalQueue as it was; when the connect step failed
\* connection and channel are as before, and when the openChannel step
\* failed the channel is as before.
C20_FailedRecoverFrame ==
  [][(ret'.op = "Recover" /\ ret'.err \notin {NoErr, Panic})
       => /\ wg' = wg
          /\ q'.internalQueue = q.internalQueue
          /\ FailedSteps(ret'.log) # <<>>
          /\ FailedSteps(ret'.log)[1].call = "connect"
               => /\ q'.connection = q.connection
                  /\ q'.channel = q.channel
                  /\ conns' = conns
                  /\ chans' = chans
          /\ FailedSteps(ret'.log)[1].call = "openChannel"
               => /\ q'.channel = q.channel
                  /\ chans' = chans]_vars

C20_Witness ==
  /\ ret.op = "Recover"
  /\ ret.err = LibErr("QueueDeclare")
  /\ HasCall(ret.log, "Dial")
  /\ wg = 1
  /\ q.worker # NilFunc
  /\ q.channel = 2
  /\ q.internalQueue.chan = 1
====
